---- MODULE Spec2Model ----
(***************************************************************************)
(* State-machine model of the VI_RestApi backend (src/backend/index.js):   *)
(* the /login pipeline (express-rate-limit, credential lookup, bcrypt      *)
(* comparison, JWT issuance), the authenticateToken middleware, the        *)
(* protected /data and /test routes, the 404 handler and the terminal      *)
(* error handler.  A request occupies a slot and moves through the         *)
(* middleware chain one callback at a time; every await of a handler is a  *)
(* step of its own, so the clock may advance while the request waits for   *)
(* the database or for bcrypt.  The libraries are modelled by what they do *)
(* for the calls the program makes: express-rate-limit's memory store      *)
(* keeps, per address, the hits of a window that its first hit opens;      *)
(* jsonwebtoken works in whole seconds and checks the signature before the *)
(* expiry; bcryptjs rejects arguments that are not strings; Sequelize      *)
(* refuses arrays and objects for STRING columns.  Any database call may   *)
(* fail.                                                                   *)
(***************************************************************************)
EXTENDS Integers, Sequences, FiniteSets, TLC

VARIABLES now, hits, reqs, data, wallet, env, attempts, users, proc

vars == <<now, hits, reqs, data, wallet, env, attempts, users, proc>>

(***************************************************************************)
(* Bounds of the model.                                                    *)
(***************************************************************************)
\* how far past `max` an address's hit counter is followed
MaxExcess == 1
\* how many issued tokens the clients keep for later requests
MaxTokens == 1
\* how many rows the data table may hold before clients stop posting
MaxRows == 1
\* how many limiter windows the clock runs through where the login route is followed
LimiterWindows == 1
\* how many half hours the clock runs through where the whole API is followed
MaxLifetimes == 2
\* how many logins per window an address makes where the whole API is followed
MaxLogins == 1
\* how many requests are in flight at once where a burst of logins is followed
MaxInFlight == 2
\* how many process-level faults are followed
MaxFaults == 2

(***************************************************************************)
(* Program constants.                                                      *)
(***************************************************************************)
\* loginLimiter: windowMs = 15 * 60 * 1000
WINDOW_MS == 900000
\* loginLimiter: max
LIMIT_MAX == 10
\* express-rate-limit's default statusCode, read as options.statusCode
LIMIT_STATUS == 429
\* '1h', the fallback of process.env.JWT_EXPIRES_IN, in milliseconds
DEFAULT_EXPIRES_MS == 3600000

(***************************************************************************)
(* JavaScript values.  Request fields are strings, undefined, or a value   *)
(* of another JSON type (a number, an array).                              *)
(***************************************************************************)
Undefined == "undefined"
EmptyStr == ""
NumberVal == "number:123"
ArrayVal == "object:[x]"

TypeOf(v) ==
    IF v = Undefined THEN "undefined"
    ELSE IF v = NumberVal THEN "number"
    ELSE IF v = ArrayVal THEN "object"
    ELSE "string"

\* !v of JavaScript, for the values above
Falsy(v) == v = Undefined \/ v = EmptyStr

(***************************************************************************)
(* Process configuration (process.env), fixed at start.                    *)
(***************************************************************************)
JWT_SECRET == "secret"
NodeEnvs == {"development", "production"}
ExpiresInSettings == {Undefined, "30m", "soon"}

\* the `ms` package, as jsonwebtoken's timespan uses it: whether the string
\* is a time span, and its milliseconds
IsTimespan(str) == str \in {"1h", "30m"}

Ms(str) == IF str = "30m" THEN 30 * 60 * 1000 ELSE DEFAULT_EXPIRES_MS

\* process.env.JWT_EXPIRES_IN || '1h'
ExpiresIn(e) == IF Falsy(e.JWT_EXPIRES_IN) THEN "1h" ELSE e.JWT_EXPIRES_IN

(***************************************************************************)
(* The users table and bcrypt.  The server only reads the table; `Users`   *)
(* is its content at start, the variable `users` its content now.          *)
(***************************************************************************)
Hash(plain) == [alg |-> "bcrypt", plain |-> plain]

Users ==
    { [id |-> 1, email |-> "a@x.io", password |-> Hash("pwA")],
      [id |-> 2, email |-> "b@x.io", password |-> Hash("pwB")] }

NoUser == [id |-> 0, email |-> Undefined, password |-> Hash(Undefined)]
\* variant: the where clause is lost and the first row comes back
FindOneFirst(email) == CHOOSE u \in users : \A v \in users : u.id <= v.id

\* User.findOne({ where: { email } }) when the query succeeds
FindOne(email) ==
    IF \E u \in users : u.email = email
    THEN CHOOSE u \in users : u.email = email
    ELSE NoUser

\* Rows of the table are removed and rewritten by others than the server
\* (it shares the database): an account is deleted, or gets a new password.
Deleted(table, u) == table \ {u}

Rehashed(table, u, plain) == (table \ {u}) \cup {[u EXCEPT !.password = Hash(plain)]}

AccountDeleted(u) ==
    /\ u \in users
    /\ users' = Deleted(users, u)
    /\ UNCHANGED <<now, hits, reqs, data, wallet, env, attempts, proc>>

PasswordChanged(u, plain) ==
    /\ u \in users
    /\ u.password # Hash(plain)
    /\ users' = Rehashed(users, u, plain)
    /\ UNCHANGED <<now, hits, reqs, data, wallet, env, attempts, proc>>

\* bcrypt.compare(s, hash): rejects unless both arguments are strings,
\* otherwise resolves to whether the hash was derived from s
BcryptCompare(s, hash) ==
    IF TypeOf(s) # "string" THEN "throw"
    ELSE IF hash.plain = s THEN "true"
    ELSE "false"

(***************************************************************************)
(* Tokens.  A segment is one piece of an Authorization header split at     *)
(* spaces: a scheme word, an empty piece, garbage, or a JWT.               *)
(***************************************************************************)
Seg(form, text, userId, email, iat, exp, key) ==
    [form |-> form, text |-> text, userId |-> userId, email |-> email,
     iat |-> iat, exp |-> exp, key |-> key]

UndefinedSeg == Seg("undefined", "", 0, Undefined, 0, 0, "")
EmptySeg == Seg("empty", "", 0, Undefined, 0, 0, "")
Word(w) == Seg("word", w, 0, Undefined, 0, 0, "")
Garbage == Seg("garbage", "abc.def", 0, Undefined, 0, 0, "")
Jwt(userId, email, iat, exp, key) == Seg("jwt", "", userId, email, iat, exp, key)

\* Math.floor(Date.now() / 1000)
ClockSeconds(t) == t \div 1000

\* jwt.sign(payload, secret, { expiresIn }): throws (UndefinedSeg here)
\* when expiresIn is no time span, otherwise returns the token with
\* iat = the clock's second and exp = iat + the span in seconds
JwtSign(userId, email, secret, expiresIn, t) ==
    IF ~IsTimespan(expiresIn) THEN UndefinedSeg
    ELSE Jwt(userId, email, ClockSeconds(t),
             ClockSeconds(t) + (Ms(expiresIn) \div 1000), secret)
\* variant: the expiry is checked before the signature
JwtVerifyExpiryFirst(token, secret, t) ==
    IF token.form # "jwt" THEN "JsonWebTokenError: jwt malformed"
    ELSE IF ClockSeconds(t) >= token.exp THEN "TokenExpiredError"
    ELSE IF token.key # secret THEN "JsonWebTokenError: invalid signature"
    ELSE "ok"
\* variant: the token is still accepted during the second of its expiry
JwtVerifyLate(token, secret, t) ==
    IF token.form # "jwt" THEN "JsonWebTokenError: jwt malformed"
    ELSE IF token.key # secret THEN "JsonWebTokenError: invalid signature"
    ELSE IF ClockSeconds(t) > token.exp THEN "TokenExpiredError"
    ELSE "ok"

\* jwt.verify(token, secret, cb): the error name, or "ok"
JwtVerify(token, secret, t) ==
    IF token.form # "jwt" THEN "JsonWebTokenError: jwt malformed"
    ELSE IF token.key # secret THEN "JsonWebTokenError: invalid signature"
    ELSE IF ClockSeconds(t) >= token.exp THEN "TokenExpiredError"
    ELSE "ok"

\* the decoded payload handed to the callback
Claims(token) ==
    [userId |-> token.userId, email |-> token.email,
     iat |-> token.iat, exp |-> token.exp]

NoClaims == [userId |-> 0, email |-> Undefined, iat |-> 0, exp |-> 0]

\* authHeader && authHeader.split(' ')[1], the header given as its pieces
HeaderToken(authHeader) ==
    IF authHeader = <<>> THEN UndefinedSeg
    ELSE IF Len(authHeader) >= 2 THEN authHeader[2]
    ELSE UndefinedSeg
\* variant: only an absent piece counts as no token
NoTokenUndefinedOnly(token) == token.form = "undefined"

\* !token
NoToken(token) == token.form \in {"undefined", "empty"}

(***************************************************************************)
(* Requests and responses.                                                 *)
(***************************************************************************)
Slots == {"r1"}
Addresses == {"10.0.0.1", "10.0.0.2"}

Body(kind, message, token, userId, email, rows, stack) ==
    [kind |-> kind, message |-> message, token |-> token, userId |-> userId,
     email |-> email, rows |-> rows, stack |-> stack]

NoBody == Body("none", "", UndefinedSeg, 0, Undefined, {}, FALSE)
\* res.json({ message })
Message(m) == Body("message", m, UndefinedSeg, 0, Undefined, {}, FALSE)

\* an error passed to next(err): its status (0 when it has none) and message
Err(status, message) == [status |-> status, message |-> message]
NoErr == Err(0, "")
\* what express.json() raises on a body that is not JSON, or is too large
ParseErr == Err(400, "Unexpected token } in JSON at position 9")
TooLargeErr == Err(413, "request entity too large")

Request(route, ip, email, password, name, city, country, auth, err) ==
    [pc |-> "received", route |-> route, ip |-> ip,
     email |-> email, password |-> password,
     name |-> name, city |-> city, country |-> country,
     auth |-> auth, err |-> err,
     user |-> NoClaims, found |-> NoUser,
     status |-> 0, body |-> NoBody, log |-> <<>>, seen |-> {}, nth |-> 0, after |-> 0,
     responses |-> 0]

Idle ==
    [Request("none", "none", Undefined, Undefined, Undefined, Undefined,
             Undefined, <<>>, NoErr) EXCEPT !.pc = "idle"]

\* res.status(status).json(body): the response is written and the request
\* ends; `responses` counts the responses written for the request
Send(r, status, body) ==
    [r EXCEPT !.pc = "sent", !.status = status, !.body = body, !.responses = @ + 1]

\* a callback of the chain starts to run on the request
Enter(r, what) == [r EXCEPT !.log = Append(@, what)]

Logged(r, what) == \E i \in 1..Len(r.log) : r.log[i] = what

(***************************************************************************)
(* The rate limiter's memory store: per address, the hits of the current   *)
(* window and the time the window ends.                                    *)
(***************************************************************************)
NoClient == [totalHits |-> 0, resetTime |-> 0]

\* variant: every hit moves the end of the window
IncrementSliding(client, t) ==
    IF client.resetTime <= t
    THEN [totalHits |-> 1, resetTime |-> t + WINDOW_MS]
    ELSE [totalHits |-> client.totalHits + 1, resetTime |-> t + WINDOW_MS]

\* variant: the counter stops at max
IncrementSaturating(client, t) ==
    IF client.resetTime <= t
    THEN [totalHits |-> 1, resetTime |-> t + WINDOW_MS]
    ELSE [client EXCEPT !.totalHits = IF @ < LIMIT_MAX THEN @ + 1 ELSE @]

\* store.increment(key): a client that is absent or whose window has ended
\* starts a new window at the current time; then the hit is counted
Increment(client, t) ==
    IF client.resetTime <= t
    THEN [totalHits |-> 1, resetTime |-> t + WINDOW_MS]
    ELSE [client EXCEPT !.totalHits = @ + 1]
\* variant: the limit reached counts as exceeded
ThrottledAtMax(client) == client.totalHits >= LIMIT_MAX

\* totalHits > max
Throttled(client) == client.totalHits > LIMIT_MAX

LimitMessage == "Too many login attempts from this IP, please try again after 15 minutes"

(***************************************************************************)
(* The process (index.js 226-255): it listens, and its handlers for        *)
(* 'unhandledRejection' and 'uncaughtException' write to the console.      *)
(* `faults` counts what they wrote.  A promise rejected with no handler or *)
(* an exception thrown outside every try block (in a timer, in a library's *)
(* own callback) may occur at any time.                                    *)
(***************************************************************************)
Started == [state |-> "serving", faults |-> 0]
\* variant: the handler ends the process, as its commented-out line would
OnUnhandledRejectionExits(p) == [p EXCEPT !.faults = @ + 1, !.state = "exited"]

\* process.on('unhandledRejection', ...): console.error only
OnUnhandledRejection(p) == [p EXCEPT !.faults = @ + 1]

\* process.on('uncaughtException', ...): console.error only
OnUncaughtException(p) == [p EXCEPT !.faults = @ + 1]

UnhandledRejection ==
    /\ proc.state = "serving"
    /\ proc.faults < MaxFaults
    /\ proc' = OnUnhandledRejection(proc)
    /\ UNCHANGED <<now, hits, reqs, data, wallet, env, attempts, users>>

UncaughtException ==
    /\ proc.state = "serving"
    /\ proc.faults < MaxFaults
    /\ proc' = OnUncaughtException(proc)
    /\ UNCHANGED <<now, hits, reqs, data, wallet, env, attempts, users>>

(***************************************************************************)
(* Initial state: the process has started, nothing was received.           *)
(***************************************************************************)
Init ==
    /\ now = 0
    /\ hits = [a \in Addresses |-> NoClient]
    /\ reqs = [s \in Slots |-> Idle]
    /\ data = {}
    /\ wallet = {}
    /\ attempts = [a \in Addresses |-> [start |-> 0, n |-> 0, allowed |-> 0]]
    /\ env \in [NODE_ENV : NodeEnvs, JWT_EXPIRES_IN : ExpiresInSettings]
    /\ users = Users
    /\ proc = Started

(***************************************************************************)
(* Time.  The clock moves through the instants around the multiples of a   *)
(* period, at the given offsets in milliseconds: just before a boundary,   *)
(* exactly at it, within the second after it.                              *)
(***************************************************************************)
Instants(period, n, offsets) ==
    { i \in { k * period + o : k \in 0..n, o \in offsets } : i >= 0 }

\* the clock reaches the next of the instants
Tick(instants) ==
    /\ \E t \in instants : t > now
    /\ now' = CHOOSE t \in instants : t > now /\ \A u \in instants : u > now => t <= u
    /\ UNCHANGED <<hits, reqs, data, wallet, env, attempts, users, proc>>

(***************************************************************************)
(* A request arrives: cors() and express.json() run, then the router picks *)
(* the first callback of the matching route.  A body that fails to parse   *)
(* makes express.json() call next(err), which skips to the error handler.  *)
(***************************************************************************)
\* variant: the login route registered without its limiter
RouteUnlimited(r) ==
    IF r.err # NoErr THEN "errorHandler"
    ELSE IF r.route = "POST /login" THEN "login"
    ELSE IF r.route \in {"GET /data", "POST /test", "POST /data"} THEN "authenticateToken"
    ELSE "notFound"

Route(r) ==
    IF r.err # NoErr THEN "errorHandler"
    ELSE IF r.route = "POST /login" THEN "loginLimiter"
    ELSE IF r.route \in {"GET /data", "POST /test", "POST /data"} THEN "authenticateToken"
    ELSE "notFound"

Receive(s, r) ==
    /\ proc.state = "serving"
    /\ reqs[s].pc \in {"idle", "sent"}
    /\ reqs' = [reqs EXCEPT ![s] =
                    [r EXCEPT !.pc = Route(r), !.seen = data, !.after = proc.faults]]
    /\ UNCHANGED <<now, hits, data, wallet, env, attempts, users, proc>>

(***************************************************************************)
(* POST /login, first callback: loginLimiter (index.js 42-51).  The hit is *)
(* counted; above max the handler option answers, otherwise next().        *)
(***************************************************************************)
\* variant: the handler option answers and the chain goes on
LimiterResultFallsThrough(r, client) ==
    IF Throttled(client)
    THEN [Send(Enter(r, "loginLimiter"), LIMIT_STATUS, Message(LimitMessage))
             EXCEPT !.pc = "login"]
    ELSE [Enter(r, "loginLimiter") EXCEPT !.pc = "login"]

LimiterResult(r, client) ==
    IF Throttled(client)
    THEN Send(Enter(r, "loginLimiter"), LIMIT_STATUS, Message(LimitMessage))
    ELSE [Enter(r, "loginLimiter") EXCEPT !.pc = "login"]

\* History, not program state: the fixed windows as the specification
\* defines them.  An address's first attempt opens a window of WINDOW_MS;
\* the first attempt at or after its end opens the next one.  `n` is the
\* attempt's number within its window, `allowed` the number of the window's
\* attempts that went on to the login handler.
Attempt(a, t) ==
    IF a.n = 0 \/ t >= a.start + WINDOW_MS
    THEN [start |-> t, n |-> 1, allowed |-> 0]
    ELSE [a EXCEPT !.n = @ + 1]

Admit(a, r) == IF r.pc = "login" THEN [a EXCEPT !.allowed = @ + 1] ELSE a

\* variant: one counter for all clients
KeyShared(r) == "10.0.0.1"

\* keyGenerator, left at its default: the request's address
Key(r) == r.ip

LoginLimiter(s) ==
    /\ reqs[s].pc = "loginLimiter"
    /\ hits' = [hits EXCEPT ![Key(reqs[s])] = Increment(@, now)]
    /\ attempts' = [attempts EXCEPT ![reqs[s].ip] =
                        Admit(Attempt(@, now), LimiterResult(reqs[s], hits'[Key(reqs[s])]))]
    /\ reqs' = [reqs EXCEPT ![s] =
                    [LimiterResult(@, hits'[Key(reqs[s])]) EXCEPT
                        !.nth = attempts'[reqs[s].ip].n]]
    /\ UNCHANGED <<now, data, wallet, env, users, proc>>

(***************************************************************************)
(* POST /login, the handler (index.js 103-141), up to its first await.     *)
(***************************************************************************)
LoginStart(r) ==
    IF Falsy(r.email) \/ Falsy(r.password)
    THEN Send(Enter(r, "login"), 400, Message("Email and password are required."))
    ELSE [Enter(Enter(r, "login"), "User.findOne") EXCEPT !.pc = "findOne"]

LoginHandler(s) ==
    /\ reqs[s].pc = "login"
    /\ reqs' = [reqs EXCEPT ![s] = LoginStart(@)]
    /\ UNCHANGED <<now, hits, data, wallet, env, attempts, users, proc>>

\* variant: the caught error's message is sent to the caller
LoginCatchSendsError(r) ==
    IF r.status = 0
    THEN Send(Enter(r, "catch"), 500, Message(r.log[Len(r.log)]))
    ELSE [Enter(r, "catch") EXCEPT !.pc = "sent"]

\* the catch block of the login handler
LoginCatch(r) ==
    IF r.status = 0
    THEN Send(Enter(r, "catch"), 500, Message("Error logging in. Please try again."))
    ELSE [Enter(r, "catch") EXCEPT !.pc = "sent"]

\* await User.findOne(...) settles: the query failed (ok = FALSE) or returned
LoginFound(r, ok) ==
    IF ~ok THEN LoginCatch(Enter(r, "User.findOne rejected"))
    ELSE IF FindOne(r.email) = NoUser
    THEN Send(r, 401, Message("Invalid credentials."))
    ELSE [Enter(r, "bcrypt.compare") EXCEPT !.pc = "compare", !.found = FindOne(r.email)]

FindOneSettles(s, ok) ==
    /\ reqs[s].pc = "findOne"
    /\ reqs' = [reqs EXCEPT ![s] = LoginFound(@, ok)]
    /\ UNCHANGED <<now, hits, data, wallet, env, attempts, users, proc>>

\* res.json({ token, userId: user.id, email: user.email })
LoginBody(token, user) == Body("login", "", token, user.id, user.email, {}, FALSE)

\* await bcrypt.compare(...) settles, then jwt.sign and the response
LoginCompared(r, e, t) ==
    LET valid == BcryptCompare(r.password, r.found.password)
        token == JwtSign(r.found.id, r.found.email, JWT_SECRET, ExpiresIn(e), t)
    IN  IF valid = "throw" THEN LoginCatch(Enter(r, "bcrypt.compare rejected"))
        ELSE IF valid = "false" THEN Send(r, 401, Message("Invalid credentials."))
        ELSE IF token = UndefinedSeg
        THEN LoginCatch(Enter(Enter(r, "jwt.sign"), "jwt.sign threw"))
        ELSE Send(Enter(r, "jwt.sign"), 200, LoginBody(token, r.found))

\* the client keeps the token of a successful login while it has room
Keep(w, r) ==
    IF r.status = 200 /\ r.body.kind = "login" /\ Cardinality(w) < MaxTokens
    THEN w \cup {r.body.token}
    ELSE w

CompareSettles(s) ==
    /\ reqs[s].pc = "compare"
    /\ reqs' = [reqs EXCEPT ![s] = LoginCompared(@, env, now)]
    /\ wallet' = Keep(wallet, reqs'[s])
    /\ UNCHANGED <<now, hits, data, env, attempts, users, proc>>

(***************************************************************************)
(* authenticateToken (index.js 77-100), the first callback of the          *)
(* protected routes.  jwt.verify runs its callback before returning.       *)
(***************************************************************************)
Handler(route) ==
    IF route = "GET /data" THEN "getData"
    ELSE IF route = "POST /test" THEN "postTest"
    ELSE "postData"

\* variant: the account of the token's claims is looked up as well
AuthResultChecksUser(r, t) ==
    LET token == HeaderToken(r.auth)
    IN  IF NoToken(token)
        THEN Send(r, 401, Message("Access token is missing or invalid"))
        ELSE IF JwtVerify(token, JWT_SECRET, t) # "ok" \/ FindOne(token.email) = NoUser
        THEN Send(Enter(r, JwtVerify(token, JWT_SECRET, t)), 403,
                  Message("Token is not valid or has expired"))
        ELSE [r EXCEPT !.user = Claims(token), !.pc = Handler(r.route)]

\* variant: the return before res.status(403) is missing and next() runs too
AuthResultRefusesAndGoesOn(r, t) ==
    LET token == HeaderToken(r.auth)
    IN  IF NoToken(token)
        THEN Send(r, 401, Message("Access token is missing or invalid"))
        ELSE IF JwtVerify(token, JWT_SECRET, t) # "ok"
        THEN [Send(Enter(r, JwtVerify(token, JWT_SECRET, t)), 403,
                   Message("Token is not valid or has expired"))
                 EXCEPT !.pc = Handler(r.route)]
        ELSE [r EXCEPT !.user = Claims(token), !.pc = Handler(r.route)]

AuthResult(r, t) ==
    LET token == HeaderToken(r.auth)
    IN  IF NoToken(token)
        THEN Send(r, 401, Message("Access token is missing or invalid"))
        ELSE IF JwtVerify(token, JWT_SECRET, t) # "ok"
        THEN Send(Enter(r, JwtVerify(token, JWT_SECRET, t)), 403,
                  Message("Token is not valid or has expired"))
        ELSE [r EXCEPT !.user = Claims(token), !.pc = Handler(r.route)]

AuthenticateToken(s) ==
    /\ reqs[s].pc = "authenticateToken"
    /\ reqs' = [reqs EXCEPT ![s] = AuthResult(Enter(@, "authenticateToken"), now)]
    /\ UNCHANGED <<now, hits, data, wallet, env, attempts, users, proc>>

(***************************************************************************)
(* GET /data (index.js 144-157).                                           *)
(***************************************************************************)
GetDataHandler(s) ==
    /\ reqs[s].pc = "getData"
    /\ reqs' = [reqs EXCEPT ![s] =
                    [Enter(Enter(@, "getData"), "Data.findAll") EXCEPT !.pc = "findAll"]]
    /\ UNCHANGED <<now, hits, data, wallet, env, attempts, users, proc>>
\* variant: the rows are dropped from the answer
GetDataFoundEmpty(r, ok, rows) ==
    IF ok THEN Send(r, 200, Body("list", "", UndefinedSeg, 0, Undefined, {}, FALSE))
    ELSE IF r.status = 0
    THEN Send(Enter(r, "Data.findAll rejected"), 500,
              Message("Error fetching data. Please try again."))
    ELSE [Enter(r, "Data.findAll rejected") EXCEPT !.pc = "sent"]

\* await Data.findAll() settles: the query failed (ok = FALSE) or returned rows
GetDataFound(r, ok, rows) ==
    IF ok THEN Send(r, 200, Body("list", "", UndefinedSeg, 0, Undefined, rows, FALSE))
    ELSE IF r.status = 0
    THEN Send(Enter(r, "Data.findAll rejected"), 500,
              Message("Error fetching data. Please try again."))
    ELSE [Enter(r, "Data.findAll rejected") EXCEPT !.pc = "sent"]

FindAllSettles(s, ok) ==
    /\ reqs[s].pc = "findAll"
    /\ reqs' = [reqs EXCEPT ![s] = GetDataFound(@, ok, data)]
    /\ UNCHANGED <<now, hits, data, wallet, env, attempts, users, proc>>

(***************************************************************************)
(* POST /test (index.js 160-174).                                          *)
(***************************************************************************)
PostTestHandler(s) ==
    /\ reqs[s].pc = "postTest"
    /\ reqs' = [reqs EXCEPT ![s] =
                    Send(Enter(@, "postTest"), 200,
                         Body("version", "Test endpoint reached successfully.",
                              UndefinedSeg, 0, Undefined, {}, FALSE))]
    /\ UNCHANGED <<now, hits, data, wallet, env, attempts, users, proc>>

(***************************************************************************)
(* POST /data (index.js 177-202).                                          *)
(***************************************************************************)
PostDataStart(r) ==
    IF Falsy(r.name) \/ Falsy(r.city) \/ Falsy(r.country)
    THEN Send(Enter(r, "postData"), 400, Message("Name, city, and country are required."))
    ELSE [Enter(Enter(r, "postData"), "Data.create") EXCEPT !.pc = "create"]

PostDataHandler(s) ==
    /\ reqs[s].pc = "postData"
    /\ reqs' = [reqs EXCEPT ![s] = PostDataStart(@)]
    /\ UNCHANGED <<now, hits, data, wallet, env, attempts, users, proc>>

\* the row Data.create inserts: the next id and the three fields
NewRow(rows, r) ==
    [id |-> Cardinality(rows) + 1, name |-> r.name, city |-> r.city, country |-> r.country]

\* Sequelize validates a STRING attribute: an array or object is refused
RowValid(r) ==
    /\ TypeOf(r.name) # "object"
    /\ TypeOf(r.city) # "object"
    /\ TypeOf(r.country) # "object"
\* variant: the row is answered but never stored
CreatedNowhere(rows, r, ok) == rows

\* the table after await Data.create(...) settles
Created(rows, r, ok) == IF ok /\ RowValid(r) THEN rows \cup {NewRow(rows, r)} ELSE rows

\* the response after await Data.create(...) settles, catch block included
PostDataCreated(r, ok, rows) ==
    IF ~RowValid(r)
    THEN Send(Enter(r, "SequelizeValidationError"), 400,
              Body("validation", "Validation error creating data.",
                   UndefinedSeg, 0, Undefined, {}, FALSE))
    ELSE IF ~ok
    THEN Send(Enter(r, "Data.create rejected"), 500,
              Message("Error creating data. Please try again."))
    ELSE Send(r, 201, Body("record", "", UndefinedSeg, 0, Undefined, {NewRow(rows, r)}, FALSE))

CreateSettles(s, ok) ==
    /\ reqs[s].pc = "create"
    /\ data' = Created(data, reqs[s], ok)
    /\ reqs' = [reqs EXCEPT ![s] = PostDataCreated(@, ok, data)]
    /\ UNCHANGED <<now, hits, wallet, env, attempts, users, proc>>

(***************************************************************************)
(* The 404 handler (index.js 205-208) and the general error handler        *)
(* (index.js 211-224).                                                     *)
(***************************************************************************)
NotFound(s) ==
    /\ reqs[s].pc = "notFound"
    /\ reqs' = [reqs EXCEPT ![s] = Send(Enter(@, "notFound"), 404, Message("Resource not found."))]
    /\ UNCHANGED <<now, hits, data, wallet, env, attempts, users, proc>>
\* variant: every error is answered 500
ErrorResponseAlways500(r, e) ==
    IF r.status # 0 THEN [r EXCEPT !.pc = "sent"]
    ELSE Send(r, 500,
              Body("message",
                   IF r.err.message # "" THEN r.err.message
                   ELSE "An unexpected error occurred on the server.",
                   UndefinedSeg, 0, Undefined, {}, e.NODE_ENV = "development"))

\* res.status(err.status || 500).json({ message: err.message || ..., errorStack })
ErrorResponse(r, e) ==
    IF r.status # 0 THEN [r EXCEPT !.pc = "sent"]
    ELSE Send(r, IF r.err.status # 0 THEN r.err.status ELSE 500,
              Body("message",
                   IF r.err.message # "" THEN r.err.message
                   ELSE "An unexpected error occurred on the server.",
                   UndefinedSeg, 0, Undefined, {}, e.NODE_ENV = "development"))

ErrorHandler(s) ==
    /\ reqs[s].pc = "errorHandler"
    /\ reqs' = [reqs EXCEPT ![s] = ErrorResponse(Enter(@, "errorHandler"), env)]
    /\ UNCHANGED <<now, hits, data, wallet, env, attempts, users, proc>>

(***************************************************************************)
(* What clients send.                                                      *)
(***************************************************************************)
Emails == {Undefined, "a@x.io", "b@x.io", "c@x.io"}
Passwords == {Undefined, "pwA", "pwB", NumberVal}

LoginRequests(ips, emails, passwords) ==
    { Request("POST /login", ip, e, p, Undefined, Undefined, Undefined, <<>>, NoErr) :
        ip \in ips, e \in emails, p \in passwords }

\* a request whose body express.json() refuses: req.body stays empty
MalformedRequests(ips, routes, errs) ==
    { Request(rt, ip, Undefined, Undefined, Undefined, Undefined, Undefined, <<>>, err) :
        rt \in routes, ip \in ips, err \in errs }

\* the client of an address sends a login while its counter is within the
\* range the model follows
MayLogin(ip) ==
    \/ hits[ip].totalHits < LIMIT_MAX + MaxExcess
    \/ hits[ip].resetTime <= now

(***************************************************************************)
(* The login service seen from two addresses: every combination of a       *)
(* present or absent email and password, within two windows.               *)
(***************************************************************************)
LimiterInbound ==
    LoginRequests(Addresses, {Undefined, "a@x.io"}, {Undefined, "pwA"})
        \cup MalformedRequests(Addresses, {"POST /login"}, {ParseErr})

LoginPipeline(s) ==
    \/ LoginLimiter(s)
    \/ LoginHandler(s)
    \/ \E ok \in BOOLEAN : FindOneSettles(s, ok)
    \/ CompareSettles(s)
    \/ ErrorHandler(s)

InitLimiter ==
    /\ Init
    /\ env = [NODE_ENV |-> "production", JWT_EXPIRES_IN |-> Undefined]

NextLimiter ==
    \/ \E s \in Slots, r \in LimiterInbound : MayLogin(r.ip) /\ Receive(s, r)
    \/ \E s \in Slots : LoginPipeline(s)
    \/ Tick(Instants(WINDOW_MS, LimiterWindows, {-1, 0}))

SpecLimiter == InitLimiter /\ [][NextLimiter]_vars

(***************************************************************************)
(* The login service seen from one address: every combination of email    *)
(* and password, under every configuration.                                *)
(***************************************************************************)
Home == "10.0.0.1"

LoginInbound ==
    LoginRequests({Home}, Emails, Passwords)
        \cup MalformedRequests({Home}, {"POST /login"}, {ParseErr, TooLargeErr})

NextLogin ==
    \/ \E s \in Slots, r \in LoginInbound : MayLogin(r.ip) /\ Receive(s, r)
    \/ \E s \in Slots : LoginPipeline(s)
    \/ Tick(Instants(WINDOW_MS, LimiterWindows, {-1, 0}))

SpecLogin == Init /\ [][NextLogin]_vars

(***************************************************************************)
(* A burst of logins from one address: several requests are in flight at   *)
(* once, each waiting for the database or for bcrypt while others arrive   *)
(* and pass the limiter.  Node runs one callback at a time, so a step of   *)
(* one request is never interrupted by a step of another.                  *)
(***************************************************************************)
Connections == 1..MaxInFlight

InitBurst ==
    /\ now = 0
    /\ hits = [a \in Addresses |-> NoClient]
    /\ reqs = [s \in Connections |-> Idle]
    /\ data = {}
    /\ wallet = {}
    /\ attempts = [a \in Addresses |-> [start |-> 0, n |-> 0, allowed |-> 0]]
    /\ env = [NODE_ENV |-> "production", JWT_EXPIRES_IN |-> Undefined]
    /\ users = Users
    /\ proc = Started

BurstInbound == LoginRequests({Home}, {"a@x.io"}, {"pwA", "pwB"})

NextBurst ==
    \/ \E s \in Connections, r \in BurstInbound : MayLogin(r.ip) /\ Receive(s, r)
    \/ \E s \in Connections : LoginLimiter(s)
    \/ \E s \in Connections : LoginHandler(s)
    \/ \E s \in Connections : FindOneSettles(s, TRUE)
    \/ \E s \in Connections : CompareSettles(s)

SpecBurst == InitBurst /\ [][NextBurst]_vars

(***************************************************************************)
(* Logins of one address over two connections while the clock runs across *)
(* the ends of the limiter's windows: a request of an earlier window may   *)
(* still be in flight, or lie answered, when the next window's first       *)
(* attempt arrives.                                                        *)
(***************************************************************************)
Pair == {"r1", "r2"}

InitWindows ==
    /\ now = 0
    /\ hits = [a \in Addresses |-> NoClient]
    /\ reqs = [s \in Pair |-> Idle]
    /\ data = {}
    /\ wallet = {}
    /\ attempts = [a \in Addresses |-> [start |-> 0, n |-> 0, allowed |-> 0]]
    /\ env = [NODE_ENV |-> "production", JWT_EXPIRES_IN |-> Undefined]
    /\ users = Users
    /\ proc = Started

NextWindows ==
    \/ \E s \in Pair, r \in LoginRequests({Home}, {"a@x.io"}, {"pwA"}) :
          MayLogin(r.ip) /\ Receive(s, r)
    \/ \E s \in Pair : LoginLimiter(s)
    \/ \E s \in Pair : LoginHandler(s)
    \/ \E s \in Pair : FindOneSettles(s, TRUE)
    \/ \E s \in Pair : CompareSettles(s)
    \/ Tick(Instants(WINDOW_MS, LimiterWindows, {-1, 0}))

SpecWindows == InitWindows /\ [][NextWindows]_vars

(***************************************************************************)
(* The whole API seen from one address: logins that succeed, then requests *)
(* to the protected routes with every shape of Authorization header, while *)
(* the clock runs past the tokens' expiry.                                 *)
(***************************************************************************)
Bearer(token) == <<Word("Bearer"), token>>

\* a token the server did not sign, with the fields of one it did
Forged(token) == [token EXCEPT !.key = "guess"]

Headers(w) ==
    {<<>>, <<Word("Bearer")>>, Bearer(EmptySeg), Bearer(Garbage), <<Garbage>>}
        \cup { Bearer(t) : t \in w }
        \cup { <<Word("Basic"), t>> : t \in w }
        \cup { Bearer(Forged(t)) : t \in w }

Rows ==
    { <<"Ann", "Pecs", "HU">>, <<Undefined, "Pecs", "HU">>, <<"Ann", EmptyStr, "HU">>,
      <<"Ann", "Pecs", Undefined>>, <<ArrayVal, "Pecs", "HU">> }

ProtectedRequests(w) ==
    { Request("GET /data", Home, Undefined, Undefined, Undefined, Undefined, Undefined,
              h, NoErr) : h \in Headers(w) }
      \cup
    { Request("POST /test", Home, Undefined, Undefined, Undefined, Undefined, Undefined,
              h, NoErr) : h \in {<<>>} \cup { Bearer(t) : t \in w } }
      \cup
    { Request("POST /data", Home, Undefined, Undefined, row[1], row[2], row[3], h, NoErr) :
        row \in Rows, h \in {<<>>} \cup { Bearer(t) : t \in w } }

OtherRequests ==
    MalformedRequests({Home}, {"POST /data"}, {ParseErr})
      \cup {Request("GET /nowhere", Home, Undefined, Undefined, Undefined, Undefined,
                    Undefined, <<>>, NoErr)}

\* clients log in until they hold MaxTokens tokens, and post until the
\* table holds MaxRows rows
MaySend(r) ==
    /\ r.route = "POST /login" =>
          /\ Cardinality(wallet) < MaxTokens
          /\ hits[r.ip].totalHits < MaxLogins \/ hits[r.ip].resetTime <= now
    /\ r.route = "POST /data" => Cardinality(data) < MaxRows

ApiInbound ==
    LoginRequests({Home}, {"a@x.io"}, {"pwA"})
      \cup ProtectedRequests(wallet) \cup OtherRequests

ApiPipeline(s) ==
    \/ AuthenticateToken(s)
    \/ GetDataHandler(s)
    \/ \E ok \in BOOLEAN : FindAllSettles(s, ok)
    \/ PostTestHandler(s)
    \/ PostDataHandler(s)
    \/ \E ok \in BOOLEAN : CreateSettles(s, ok)
    \/ NotFound(s)

InitApi ==
    /\ Init
    /\ env.NODE_ENV = "production"
    /\ env.JWT_EXPIRES_IN \in {Undefined, "30m"}

NextApi ==
    \/ \E s \in Slots, r \in ApiInbound : MaySend(r) /\ Receive(s, r)
    \/ \E s \in Slots : LoginPipeline(s)
    \/ \E s \in Slots : ApiPipeline(s)
    \/ Tick(Instants(Ms("30m"), MaxLifetimes, {-1, 0, 999}))

SpecApi == InitApi /\ [][NextApi]_vars

(***************************************************************************)
(* Sessions: a client logs in, keeps the token and presents it on the      *)
(* protected routes while it goes on logging in (until the limiter         *)
(* throttles it), while accounts are deleted or get new passwords, and     *)
(* while the clock runs up to the token's expiry and past it.              *)
(***************************************************************************)
\* a token the server did not sign, whose exp lies in the past at any time
ExpiredForgery == Jwt(1, "a@x.io", 0, 0, "guess")

SessionInbound(w) ==
    LoginRequests({Home}, {"a@x.io"}, {"pwA", "pwB"})
      \cup
    { Request(rt, Home, Undefined, Undefined, Undefined, Undefined, Undefined,
              Bearer(t), NoErr) : rt \in {"GET /data", "POST /test"}, t \in w }
      \cup
    { Request("GET /data", Home, Undefined, Undefined, Undefined, Undefined, Undefined,
              Bearer(t), NoErr) : t \in {ExpiredForgery} \cup { Forged(u) : u \in w } }

InitSessions ==
    /\ Init
    /\ env = [NODE_ENV |-> "production", JWT_EXPIRES_IN |-> Undefined]

NextSessions ==
    \/ \E s \in Slots, r \in SessionInbound(wallet) :
          (r.route = "POST /login" => MayLogin(r.ip)) /\ Receive(s, r)
    \/ \E s \in Slots : LoginLimiter(s)
    \/ \E s \in Slots : LoginHandler(s)
    \/ \E s \in Slots : FindOneSettles(s, TRUE)
    \/ \E s \in Slots : CompareSettles(s)
    \/ \E s \in Slots : AuthenticateToken(s)
    \/ \E s \in Slots : GetDataHandler(s)
    \/ \E s \in Slots : FindAllSettles(s, TRUE)
    \/ \E s \in Slots : PostTestHandler(s)
    \/ \E u \in Users : AccountDeleted(u)
    \/ \E u \in Users : PasswordChanged(u, "pwB")
    \/ Tick(Instants(DEFAULT_EXPIRES_MS, 1, {-1, 0}))

SpecSessions == InitSessions /\ [][NextSessions]_vars

(***************************************************************************)
(* The login route while process-level faults occur: a promise is rejected *)
(* with no handler, an exception is thrown outside every try block.        *)
(***************************************************************************)
NextFaults ==
    \/ \E s \in Slots, r \in LoginRequests({Home}, {"a@x.io"}, {"pwA", Undefined}) :
          MayLogin(r.ip) /\ Receive(s, r)
    \/ \E s \in Slots : LoginLimiter(s)
    \/ \E s \in Slots : LoginHandler(s)
    \/ \E s \in Slots : FindOneSettles(s, TRUE)
    \/ \E s \in Slots : CompareSettles(s)
    \/ UnhandledRejection
    \/ UncaughtException
    \/ Tick(Instants(WINDOW_MS, LimiterWindows, {-1, 0}))

SpecFaults == InitLimiter /\ [][NextFaults]_vars

(***************************************************************************)
(* The middleware chain of every route, followed to the response.  Node's  *)
(* event loop runs every callback that is ready, and a database call or a  *)
(* bcrypt comparison settles one way or the other: a request that has a    *)
(* step to take takes it.                                                  *)
(***************************************************************************)
Chain(s) == LoginPipeline(s) \/ ApiPipeline(s)

NextChain ==
    \/ \E s \in Slots, r \in ApiInbound : MaySend(r) /\ Receive(s, r)
    \/ \E s \in Slots : LoginPipeline(s)
    \/ \E s \in Slots : ApiPipeline(s)

SpecChain == InitApi /\ [][NextChain]_vars /\ \A s \in Slots : WF_vars(Chain(s))

(***************************************************************************)
(* Two clients at two addresses, each logging in and calling the protected *)
(* routes, with and without a token.                                       *)
(***************************************************************************)
TwoClientsInbound(w) ==
    LoginRequests(Addresses, {"a@x.io"}, {"pwA"})
      \cup
    { Request(rt, ip, Undefined, Undefined, Undefined, Undefined, Undefined, h, NoErr) :
        rt \in {"GET /data", "POST /test"}, ip \in Addresses,
        h \in {<<>>} \cup { Bearer(t) : t \in w } }
      \cup
    { Request("POST /data", ip, Undefined, Undefined, "Ann", "Pecs", "HU", Bearer(t), NoErr) :
        ip \in Addresses, t \in w }

MayCall(r) ==
    /\ r.route = "POST /login" => MayLogin(r.ip)
    /\ r.route = "POST /data" => Cardinality(data) < MaxRows

NextTwoClients ==
    \/ \E s \in Slots, r \in TwoClientsInbound(wallet) : MayCall(r) /\ Receive(s, r)
    \/ \E s \in Slots : LoginLimiter(s)
    \/ \E s \in Slots : LoginHandler(s)
    \/ \E s \in Slots : FindOneSettles(s, TRUE)
    \/ \E s \in Slots : CompareSettles(s)
    \/ \E s \in Slots : AuthenticateToken(s)
    \/ \E s \in Slots : GetDataHandler(s)
    \/ \E s \in Slots : FindAllSettles(s, TRUE)
    \/ \E s \in Slots : PostTestHandler(s)
    \/ \E s \in Slots : PostDataHandler(s)
    \/ \E s \in Slots : CreateSettles(s, TRUE)
    \/ Tick(Instants(WINDOW_MS, LimiterWindows, {0}))

SpecTwoClients == InitLimiter /\ [][NextTwoClients]_vars

(***************************************************************************)
(* Properties.                                                             *)
(***************************************************************************)
Done(r) == r.pc = "sent"
IsLogin(r) == r.route = "POST /login" /\ r.err = NoErr
FieldsPresent(r) == ~Falsy(r.email) /\ ~Falsy(r.password)
TouchedCredentials(r) ==
    Logged(r, "User.findOne") \/ Logged(r, "bcrypt.compare") \/ Logged(r, "jwt.sign")
RateLimited(r) == r.status = 429 /\ r.body = Message(LimitMessage)

\* C1: of the login attempts of an address within one window, the first 10
\* pass the limiter to the login handler, which looks the credentials up
\* when email and password are present; the 11th and every later one gets
\* the rate-limit response and never enters the handler.
C1_FirstTenPassRestThrottled ==
    \A s \in Slots :
        LET r == reqs[s]
        IN  IsLogin(r) /\ Logged(r, "loginLimiter") =>
              /\ r.nth >= 1
              /\ r.nth <= 10 =>
                    /\ r.pc = "login" \/ Logged(r, "login")
                    /\ ~RateLimited(r)
                    /\ Logged(r, "login") /\ FieldsPresent(r) => Logged(r, "User.findOne")
              /\ r.nth >= 11 =>
                    /\ Done(r)
                    /\ RateLimited(r)
                    /\ ~Logged(r, "login")

\* the 11th attempt of a window was throttled while the window was open
C1_Witness ==
    \E s \in Slots :
        /\ IsLogin(reqs[s]) /\ reqs[s].nth = 11 /\ RateLimited(reqs[s])
        /\ now < attempts[reqs[s].ip].start + 900000

\* C8 as stated: a login request without email or password is answered 400
\* without the limiter having been consulted.
C8_PresenceBeforeLimiter ==
    \A s \in Slots :
        LET r == reqs[s]
        IN  IsLogin(r) /\ ~FieldsPresent(r) /\ Done(r) =>
              r.status = 400 /\ ~Logged(r, "loginLimiter")

\* C8 amended: the limiter runs first.  A login request without email or
\* password is counted as an attempt of its address; within the first 10 of
\* the window it is answered 400 by the handler, after that it is throttled;
\* it never reaches the credential lookup.
C8_LimiterBeforePresence ==
    \A s \in Slots :
        LET r == reqs[s]
        IN  IsLogin(r) /\ ~FieldsPresent(r) =>
              /\ Logged(r, "login") => r.log[1] = "loginLimiter"
              /\ Done(r) =>
                    /\ r.nth >= 1
                    /\ hits[r.ip].totalHits >= 1
                    /\ r.nth <= 10 =>
                          r.status = 400 /\ r.body = Message("Email and password are required.")
                    /\ r.nth >= 11 => RateLimited(r)
              /\ ~TouchedCredentials(r)

\* a request without a password was throttled as its window's 11th attempt
C8_Witness ==
    \E s \in Slots :
        /\ IsLogin(reqs[s]) /\ Falsy(reqs[s].password)
        /\ reqs[s].nth = 11 /\ RateLimited(reqs[s])

\* C9: a login request the limiter throttles ends there: no credential
\* lookup, no password comparison, no token.
C9_ThrottledTouchesNothing ==
    \A s \in Slots :
        LET r == reqs[s]
        IN  IsLogin(r) /\ (RateLimited(r) \/ r.nth >= 11) =>
              /\ Done(r)
              /\ ~Logged(r, "login")
              /\ ~TouchedCredentials(r)
              /\ r.body.token = UndefinedSeg
              /\ r.found = NoUser

\* a request with valid credentials was throttled
C9_Witness ==
    \E s \in Slots :
        /\ IsLogin(reqs[s]) /\ RateLimited(reqs[s])
        /\ reqs[s].email = "a@x.io" /\ reqs[s].password = "pwA"

\* the stored record a request's email and password match, if any
Matches(r, u) == u.email = r.email /\ u.password = Hash(r.password)
MatchesSome(r) == \E u \in Users : Matches(r, u)

\* the 200 answer of a login as user u
LoggedInAs(r, u) ==
    /\ r.status = 200
    /\ r.body.kind = "login"
    /\ r.body.userId = u.id
    /\ r.body.email = u.email
    /\ Claims(r.body.token).userId = u.id
    /\ Claims(r.body.token).email = u.email

\* C2 as stated: every login that passed the limiter with the email and
\* password of a stored record is answered 200 with token, userId and email,
\* the token's claims holding the record's id and email.
C2_MatchingLoginGets200 ==
    \A s \in Slots, u \in Users :
        LET r == reqs[s]
        IN  IsLogin(r) /\ Done(r) /\ Logged(r, "login") /\ Matches(r, u) =>
              LoggedInAs(r, u)

\* C2 amended: ... unless the credential lookup or the signing of the token
\* fails; then the handler's catch block answers the generic 500.
C2_MatchingLoginGets200UnlessFailure ==
    \A s \in Slots, u \in Users :
        LET r == reqs[s]
        IN  IsLogin(r) /\ Done(r) /\ Logged(r, "login") /\ Matches(r, u) =>
              IF Logged(r, "User.findOne rejected") \/ Logged(r, "jwt.sign threw")
              THEN r.status = 500 /\ r.body = Message("Error logging in. Please try again.")
              ELSE LoggedInAs(r, u)

\* the second user logged in
C2_Witness ==
    \E s \in Slots :
        /\ IsLogin(reqs[s]) /\ reqs[s].email = "b@x.io" /\ reqs[s].password = "pwB"
        /\ reqs[s].status = 200 /\ reqs[s].body.token.userId = 2

\* C3: a login that passed the limiter with both fields present and with
\* credentials that match no record is answered 401 "Invalid credentials.",
\* the same whether the email is unknown or known (the credential lookup
\* itself having succeeded in both cases).
C3_InvalidLoginGetsSame401 ==
    \A s \in Slots :
        LET r == reqs[s]
        IN  /\ IsLogin(r) /\ Done(r) /\ Logged(r, "login")
            /\ FieldsPresent(r) /\ ~MatchesSome(r)
            /\ ~Logged(r, "User.findOne rejected")
            => r.status = 401 /\ r.body = Message("Invalid credentials.")

\* C10 as stated: whatever reaches the general error handler is answered 500
\* with the generic message, the stack only in development mode.
C10_ErrorsGetGeneric500 ==
    \A s \in Slots :
        LET r == reqs[s]
        IN  Done(r) /\ Logged(r, "errorHandler") =>
              /\ r.status = 500
              /\ r.body.message = "An unexpected error occurred on the server."
              /\ r.body.stack => env.NODE_ENV = "development"

\* C10 amended: the general error handler answers with the error's own
\* status and message when it has them (a body parse error: 400 and the
\* parser's message), with 500 and the generic message otherwise; the stack
\* is sent in development mode only.
C10_ErrorsKeepStatusAndMessage ==
    \A s \in Slots :
        LET r == reqs[s]
        IN  Done(r) /\ Logged(r, "errorHandler") =>
              /\ r.err # NoErr
              /\ r.status = IF r.err.status # 0 THEN r.err.status ELSE 500
              /\ r.body.message =
                    IF r.err.message # "" THEN r.err.message
                    ELSE "An unexpected error occurred on the server."
              /\ r.body.stack <=> env.NODE_ENV = "development"
              /\ r.log = <<"errorHandler">>

\* a body parse error was answered 400 in production mode, without stack
C10_Witness ==
    \E s \in Slots :
        /\ Done(reqs[s]) /\ reqs[s].err = ParseErr
        /\ reqs[s].status = 400 /\ reqs[s].body.message = ParseErr.message
        /\ ~reqs[s].body.stack /\ env.NODE_ENV = "production"

AllPresent(r) == ~Falsy(r.name) /\ ~Falsy(r.city) /\ ~Falsy(r.country)
IsProtected(r) == r.route \in {"GET /data", "POST /test", "POST /data"} /\ r.err = NoErr
HandlerRan(r) ==
    \/ Logged(r, "getData") \/ Logged(r, "postTest") \/ Logged(r, "postData")
    \/ Logged(r, "Data.findAll") \/ Logged(r, "Data.create")

\* no bearer token can be taken from the header: it is absent, has no second
\* piece, or its second piece is empty
NoBearer(h) == Len(h) < 2 \/ h[2].form = "empty"

\* the request in slot s leaves authenticateToken in this step
AuthStep(s) == reqs[s].pc = "authenticateToken" /\ reqs'[s].pc # "authenticateToken"

\* a token that verifies at time t: well formed, signed with the server's
\* secret, not yet at its expiry
ValidAt(token, t) == token.form = "jwt" /\ token.key = JWT_SECRET /\ t < token.exp * 1000

\* C4: a request to a protected route that carries no bearer token is
\* answered 401 by authenticateToken; no route handler runs, the data table
\* is neither read nor written, no claims are attached to the request.
C4_NoTokenGets401 ==
    \A s \in Slots :
        LET r == reqs[s]
        IN  IsProtected(r) /\ NoBearer(r.auth) /\ Logged(r, "authenticateToken") =>
              /\ Done(r)
              /\ r.status = 401
              /\ r.body = Message("Access token is missing or invalid")
              /\ ~HandlerRan(r)
              /\ r.user = NoClaims

\* a complete POST /data without header, and a GET /data whose header is
\* one piece with no space in it, were answered 401
C4_Witness ==
    \E s \in Slots :
        /\ reqs[s].status = 401
        /\ \/ reqs[s].route = "GET /data" /\ reqs[s].auth = <<Garbage>>
           \/ reqs[s].route = "POST /data" /\ reqs[s].auth = <<>> /\ AllPresent(reqs[s])

C5_Rejections(s) ==
    /\ AuthStep(s) /\ reqs[s].route = "GET /data" =>
          /\ NoBearer(reqs[s].auth) => Done(reqs'[s]) /\ reqs'[s].status = 401
          /\ ~NoBearer(reqs[s].auth) /\ ~ValidAt(reqs[s].auth[2], now) =>
                Done(reqs'[s]) /\ reqs'[s].status = 403 /\ ~HandlerRan(reqs'[s])
          /\ ~NoBearer(reqs[s].auth) /\ ValidAt(reqs[s].auth[2], now) =>
                reqs'[s].pc = "getData" /\ reqs'[s].status = 0
    /\ reqs[s].pc = "getData" => reqs'[s].pc \in {"getData", "findAll"}

\* the answer to GET /data is written in this step
GetDataAnswered(s) == reqs[s].pc = "findAll" /\ reqs'[s].pc = "sent"

\* C5 as stated: GET /data without Authorization header gets 401; with a
\* token that does not verify it gets 403 and the handler does not run;
\* with a valid token it gets the rows the table holds.
C5_GetDataByToken ==
    [][\A s \in Slots :
          /\ C5_Rejections(s)
          /\ GetDataAnswered(s) =>
                /\ reqs'[s].status = 200
                /\ reqs'[s].body.kind = "list"
                /\ reqs'[s].body.rows = data]_vars

\* C5 amended: ... with a valid token it gets the rows the table holds,
\* unless the query fails: then the catch block answers the generic 500.
C5_GetDataByTokenUnlessFailure ==
    [][\A s \in Slots :
          /\ C5_Rejections(s)
          /\ GetDataAnswered(s) =>
                IF Logged(reqs'[s], "Data.findAll rejected")
                THEN /\ reqs'[s].status = 500
                     /\ reqs'[s].body = Message("Error fetching data. Please try again.")
                ELSE /\ reqs'[s].status = 200
                     /\ reqs'[s].body.kind = "list"
                     /\ reqs'[s].body.rows = data]_vars

\* GET /data with a garbage token was answered 403, and the table has a row
C5_Witness ==
    \E s \in Slots :
        /\ reqs[s].route = "GET /data" /\ reqs[s].auth = Bearer(Garbage)
        /\ reqs[s].status = 403 /\ data # {}

\* the lifetime the configuration gives a token, in seconds
ConfiguredTtl == IF env.JWT_EXPIRES_IN = Undefined THEN 3600 ELSE 1800

\* the 200 answer of a login is written in this step
TokenIssued(s) == reqs[s].pc = "compare" /\ reqs'[s].status = 200

\* C6: a token issued at login has exp = issue time + ttl (one hour when
\* none is configured).  Presented on a protected route after its expiry it
\* is answered 403 and no handler runs; presented before its expiry it is
\* authorized: its claims are attached and the route's handler is next.
C6_TokenLifetime ==
    [][\A s \in Slots :
          /\ TokenIssued(s) =>
                /\ reqs'[s].body.token.iat = now \div 1000
                /\ reqs'[s].body.token.exp = reqs'[s].body.token.iat + ConfiguredTtl
          /\ \A t \in wallet :
                AuthStep(s) /\ reqs[s].auth = Bearer(t) =>
                  /\ now > t.exp * 1000 =>
                        /\ Done(reqs'[s])
                        /\ reqs'[s].status = 403
                        /\ reqs'[s].body = Message("Token is not valid or has expired")
                        /\ ~HandlerRan(reqs'[s])
                  /\ now < t.exp * 1000 =>
                        /\ reqs'[s].pc = Handler(reqs[s].route)
                        /\ reqs'[s].status = 0
                        /\ reqs'[s].user = Claims(t)
          /\ reqs[s].status = 403 => ~HandlerRan(reqs'[s])]_vars

\* a token issued with the default lifetime was refused within the second
\* after its hour
C6_Witness ==
    \E s \in Slots, t \in wallet :
        /\ env.JWT_EXPIRES_IN = Undefined /\ t.exp = t.iat + 3600
        /\ reqs[s].auth = Bearer(t) /\ reqs[s].status = 403
        /\ Logged(reqs[s], "TokenExpiredError")
        /\ now = t.exp * 1000 + 999

IsPostData(r) == r.route = "POST /data" /\ r.err = NoErr /\ Logged(r, "postData")

\* C7 as stated: an authorized POST /data with name, city and country
\* present is answered 201.
C7_CompletePostGets201 ==
    \A s \in Slots :
        LET r == reqs[s]
        IN  IsPostData(r) /\ AllPresent(r) /\ Done(r) => r.status = 201

C7_Answers(r) ==
    /\ IsPostData(r) /\ AllPresent(r) /\ Done(r) =>
          \/ /\ r.status = 201
             /\ r.body.kind = "record"
             /\ r.body.rows \subseteq data
             /\ \E row \in r.body.rows :
                   row.name = r.name /\ row.city = r.city /\ row.country = r.country
          \/ /\ Logged(r, "SequelizeValidationError")
             /\ r.status = 400
             /\ r.body.message = "Validation error creating data."
          \/ /\ Logged(r, "Data.create rejected")
             /\ r.status = 500
             /\ r.body = Message("Error creating data. Please try again.")
    /\ IsPostData(r) /\ ~AllPresent(r) =>
          /\ Done(r)
          /\ r.status = 400
          /\ r.body = Message("Name, city, and country are required.")
          /\ ~Logged(r, "Data.create")
    /\ r.route = "GET /data" /\ Done(r) /\ r.status = 200 => r.seen \subseteq r.body.rows

C7_Frame(s) ==
    /\ data \subseteq data'
    /\ reqs[s].pc = "postData" /\ ~AllPresent(reqs[s]) => data' = data
    /\ reqs[s].pc = "create" /\ reqs'[s].status # 201 => data' = data

\* C7 amended: an authorized POST /data with name, city and country present
\* is answered 201 and its row is stored, unless Data.create fails: a value
\* Sequelize refuses is answered 400 "Validation error creating data.", any
\* other failure 500, and then the table is unchanged.  Rows are never
\* removed, and every GET /data answered 200 contains every row stored before
\* it arrived.  A POST /data without one of the three fields is answered 400
\* and leaves the table unchanged.
C7_PostDataUnlessFailure ==
    /\ [](\A s \in Slots : C7_Answers(reqs[s]))
    /\ [][\A s \in Slots : C7_Frame(s)]_vars

\* a GET /data that arrived after a row was stored returned it
C7_Witness ==
    \E s \in Slots :
        /\ reqs[s].route = "GET /data" /\ reqs[s].status = 200
        /\ reqs[s].seen # {} /\ reqs[s].seen \subseteq reqs[s].body.rows

\* the requests that are suspended inside the login handler
InFlight == { s \in DOMAIN reqs : reqs[s].pc \in {"login", "findOne", "compare"} }

\* C11: however the steps of concurrent logins of one address interleave
\* within a window, the limiter's counter of the address is the number of
\* attempts made so far in the window, every attempt got its own number, at
\* most 10 attempts of the window went on to the handler, and each of those
\* is among the window's first 10.
C11_NoInterleavingUndercounts ==
    /\ hits[Home].totalHits = attempts[Home].n
    /\ attempts[Home].allowed <= 10
    /\ attempts[Home].allowed = IF attempts[Home].n <= 10 THEN attempts[Home].n ELSE 10
    /\ \A s \in DOMAIN reqs :
          Logged(reqs[s], "loginLimiter") =>
            /\ reqs[s].nth <= attempts[Home].n
            /\ reqs[s].nth <= 10 <=> ~RateLimited(reqs[s])
    /\ \A s, u \in InFlight : s # u => reqs[s].nth # reqs[u].nth

\* the window's 11th attempt arrived and was throttled while the 10th was
\* still waiting for bcrypt
C11_Witness ==
    \E s, u \in DOMAIN reqs :
        /\ reqs[s].pc = "compare" /\ reqs[s].nth = 10
        /\ reqs[u].nth = 11 /\ RateLimited(reqs[u])
        /\ hits[Home].totalHits = 11

\* the request in slot s passes loginLimiter in this step
LimiterStep(s) == reqs[s].pc = "loginLimiter" /\ reqs'[s].pc # "loginLimiter"

\* C12: windows are fixed.  An attempt made before the end of the address's
\* window is counted on top of the window's earlier attempts and leaves the
\* end of the window where the first attempt put it; the first attempt at or
\* after the end is counted as 1, opens the next window and goes on to the
\* handler, however many attempts the elapsed window held and whether or
\* not requests of it are still in flight.
C12_WindowElapsesCounterResets ==
    [][\A s \in DOMAIN reqs :
          LimiterStep(s) =>
            LET a == reqs[s].ip
                w == attempts[a]
            IN  /\ w.n >= 1 /\ now >= w.start + WINDOW_MS =>
                      /\ hits'[a].totalHits = 1
                      /\ hits'[a].resetTime = now + WINDOW_MS
                      /\ reqs'[s].pc = "login"
                      /\ reqs'[s].status = 0
                /\ w.n >= 1 /\ now < w.start + WINDOW_MS =>
                      /\ hits'[a].totalHits = w.n + 1
                      /\ hits'[a].resetTime = w.start + WINDOW_MS
                      /\ w.n >= 10 => RateLimited(reqs'[s])]_vars

\* an attempt of the address was throttled, and after the end of that
\* window the address's next attempt was counted as the first of a new
\* window and went on to the handler
C12_Witness ==
    \E s, u \in DOMAIN reqs :
        /\ reqs[s].nth = 11 /\ RateLimited(reqs[s])
        /\ reqs[u].nth = 1 /\ reqs[u].pc = "login"
        /\ hits[Home].totalHits = 1 /\ hits[Home].resetTime = now + 900000
        /\ now >= 900000

\* C13: whether authenticateToken lets a request through depends on the
\* token's signature and expiry at that moment and on nothing else: a token
\* issued earlier is authorized, with its claims attached, as long as its
\* expiry is ahead, also after its account was deleted or got a new
\* password, after further logins and while the address is throttled; and
\* no request to a protected route ever looks a user up.
C13_TokenValidUntilExpiry ==
    /\ [](\A s \in Slots :
            IsProtected(reqs[s]) =>
              ~TouchedCredentials(reqs[s]) /\ reqs[s].found = NoUser)
    /\ [][\A s \in Slots :
            AuthStep(s) /\ Len(reqs[s].auth) >= 2 =>
              /\ reqs'[s].pc = Handler(reqs[s].route) <=> ValidAt(reqs[s].auth[2], now)
              /\ ValidAt(reqs[s].auth[2], now) =>
                    /\ reqs'[s].status = 0
                    /\ reqs'[s].user = Claims(reqs[s].auth[2])]_vars

\* the token of an account that has since been deleted was authorized on
\* GET /data while the address was throttled on the login route
C13_Witness ==
    \E s \in Slots, t \in wallet :
        /\ reqs[s].route = "GET /data" /\ reqs[s].auth = Bearer(t)
        /\ reqs[s].user = Claims(t) /\ Logged(reqs[s], "getData")
        /\ \A u \in users : u.id # t.userId
        /\ hits[Home].totalHits > 10 /\ now < hits[Home].resetTime

\* C14: a request is let through to a protected route's handler only if its
\* Authorization header is the word Bearer followed by a token that is
\* signed with the server's secret and not expired; no header of another
\* scheme or shape is ever authorized.
C14_OnlyBearerAuthorized ==
    [][\A s \in Slots :
          AuthStep(s) /\ reqs'[s].pc = Handler(reqs[s].route) =>
            /\ Len(reqs[s].auth) = 2
            /\ reqs[s].auth[1] = Word("Bearer")
            /\ ValidAt(reqs[s].auth[2], now)]_vars

\* a step of the login sequence failed for the request
LoginFailed(r) ==
    \/ Logged(r, "User.findOne rejected")
    \/ Logged(r, "bcrypt.compare rejected")
    \/ Logged(r, "jwt.sign threw")

\* C15: when the credential lookup fails, the password comparison throws or
\* the signing of the token throws, the handler's catch block logs the error
\* and answers 500 with the fixed message and nothing else in the body: no
\* token, no stack, no text of the failure, the same in development and in
\* production mode; the general error handler is not involved.
C15_LoginFailureGetsGeneric500 ==
    \A s \in Slots :
        LET r == reqs[s]
        IN  IsLogin(r) /\ LoginFailed(r) =>
              /\ Done(r)
              /\ Logged(r, "catch")
              /\ r.status = 500
              /\ r.body = Message("Error logging in. Please try again.")
              /\ ~r.body.stack
              /\ ~Logged(r, "errorHandler")

\* in development mode the signing of a token threw and the login was
\* answered 500
C15_Witness ==
    \E s \in Slots :
        /\ env.NODE_ENV = "development"
        /\ Logged(reqs[s], "jwt.sign threw") /\ reqs[s].status = 500

\* the answer of authenticateToken to a token that does not verify
Refused(r) == r.status = 403 /\ r.body = Message("Token is not valid or has expired")

\* C16: a token with a bad signature fails verification as a signature
\* error whether or not it is also expired, an expired token with a good
\* signature fails as expired, and the caller gets the same 403 and message
\* for both.
C16_SignatureBeforeExpirySame403 ==
    \A s \in Slots :
        LET r == reqs[s]
        IN  IsProtected(r) /\ Done(r) /\ Len(r.auth) = 2 /\ r.auth[2].form = "jwt" =>
              /\ r.auth[2].key # JWT_SECRET =>
                    /\ Logged(r, "JsonWebTokenError: invalid signature")
                    /\ ~Logged(r, "TokenExpiredError")
                    /\ Refused(r)
              /\ Logged(r, "TokenExpiredError") =>
                    /\ r.auth[2].key = JWT_SECRET
                    /\ now >= r.auth[2].exp * 1000
                    /\ Refused(r)
              /\ r.status = 403 => ~HandlerRan(r) /\ r.user = NoClaims

\* a token that is badly signed and expired was refused for its signature
C16_Witness ==
    \E s \in Slots :
        /\ reqs[s].auth = Bearer(ExpiredForgery)
        /\ Logged(reqs[s], "JsonWebTokenError: invalid signature")
        /\ Refused(reqs[s])

\* a token of the server was refused as expired
C16_ExpiredWitness ==
    \E s \in Slots, t \in wallet :
        /\ reqs[s].auth = Bearer(t) /\ Logged(reqs[s], "TokenExpiredError")
        /\ Refused(reqs[s])

\* a process-level fault is logged in this step
FaultStep == proc'.faults > proc.faults

\* C17: an unhandled rejection or uncaught exception is logged and nothing
\* else happens: the process stays in its serving state, the limiter's
\* counters, the requests in flight and the tables are as they were, and a
\* request that arrives after the fault is counted and answered like any
\* other (the limiter's counter goes on from where it was).
C17_FaultsOnlyLogged ==
    /\ [](/\ proc.state = "serving"
          /\ hits[Home].totalHits = attempts[Home].n
          /\ \A s \in Slots :
                LET r == reqs[s]
                IN  IsLogin(r) /\ r.after >= 1 /\ Logged(r, "loginLimiter") =>
                      /\ r.nth <= 10 => r.pc = "login" \/ Logged(r, "login")
                      /\ r.nth >= 11 => RateLimited(r)
                      /\ Done(r) /\ r.nth <= 10 /\ FieldsPresent(r) => r.status = 200
                      /\ Done(r) /\ r.nth <= 10 /\ ~FieldsPresent(r) => r.status = 400)
    /\ [][FaultStep =>
            /\ proc'.state = "serving"
            /\ UNCHANGED <<now, hits, reqs, data, wallet, env, attempts, users>>]_vars

\* after two faults were logged a login arrived, was counted as the
\* window's fifth attempt and was answered 200
C17_Witness ==
    \E s \in Slots :
        /\ proc.faults = 2 /\ reqs[s].after = 2
        /\ reqs[s].nth = 5 /\ reqs[s].status = 200

\* the request is inside the middleware chain
InChain(r) == r.pc \notin {"idle", "sent"}

\* C18: every request that enters the chain is answered, and answered
\* once: while it is in the chain nothing was written for it, when it has
\* left the chain exactly one response was written; authenticateToken
\* either writes a 401 or 403 and ends the request, or writes nothing and
\* hands it to the route's handler.
C18_ExactlyOneResponse ==
    /\ [](\A s \in Slots :
            /\ reqs[s].responses <= 1
            /\ InChain(reqs[s]) => reqs[s].responses = 0 /\ reqs[s].status = 0
            /\ Done(reqs[s]) => reqs[s].responses = 1 /\ reqs[s].status # 0)
    /\ [][\A s \in Slots :
            AuthStep(s) =>
              \/ /\ Done(reqs'[s])
                 /\ reqs'[s].status \in {401, 403}
                 /\ reqs'[s].responses = 1
              \/ /\ reqs'[s].pc = Handler(reqs[s].route)
                 /\ reqs'[s].responses = 0]_vars
    /\ \A s \in Slots : InChain(reqs[s]) ~> Done(reqs[s])

\* a POST /data whose insert failed was answered once, by the catch block
C18_Witness ==
    \E s \in Slots :
        /\ Logged(reqs[s], "Data.create rejected")
        /\ reqs[s].responses = 1 /\ reqs[s].status = 500

\* C19: the limiter's counter of an address changes only in the step in
\* which a POST /login of that address passes the limiter, and then by that
\* one attempt; an address is throttled only on its own count; requests to
\* the protected routes leave every counter alone, are never numbered as
\* login attempts and never get the rate-limit response, also while their
\* address is throttled on the login route.
C19_LimiterIsolated ==
    /\ [](\A s \in Slots :
            /\ IsProtected(reqs[s]) =>
                  /\ reqs[s].nth = 0
                  /\ ~Logged(reqs[s], "loginLimiter")
                  /\ reqs[s].status # 429
            /\ RateLimited(reqs[s]) =>
                  reqs[s].route = "POST /login" /\ reqs[s].nth >= 11)
    /\ [][\A a \in Addresses :
            hits'[a] # hits[a] =>
              \E s \in Slots :
                  /\ LimiterStep(s)
                  /\ reqs[s].route = "POST /login"
                  /\ reqs[s].ip = a
                  /\ hits'[a].totalHits = 1 \/ hits'[a].totalHits = hits[a].totalHits + 1
                  /\ RateLimited(reqs'[s]) => hits[a].totalHits >= 10]_vars

\* while the first address was throttled on the login route, with the
\* second address's counter at its own two attempts, a POST /test of the
\* first address was served
C19_Witness ==
    \E s \in Slots :
        /\ hits["10.0.0.1"].totalHits > 10 /\ now < hits["10.0.0.1"].resetTime
        /\ hits["10.0.0.2"].totalHits = 2
        /\ reqs[s].ip = "10.0.0.1"
        /\ reqs[s].route = "POST /test" /\ reqs[s].status = 200

====
